---- MODULE Spec2Model ----
(***************************************************************************)
(* CV-analysis pipeline of the JobHive server: the analysis record store,  *)
(* the HTTP handlers of the CV analyzer controller, the background         *)
(* performAnalysis run, the PDF extractor's content validation and the     *)
(* OpenAI client's retry loop and response parsing.                        *)
(***************************************************************************)
EXTENDS Integers, Sequences, FiniteSets, TLC

\* ------------------------------------------------------------------------
\* Bounds of the model
\* ------------------------------------------------------------------------
MaxRecords == 2
MaxRuns == 2

Users == {"userA", "userB"}
Ids == 1..MaxRecords
RunIds == 1..MaxRuns

\* ------------------------------------------------------------------------
\* Program constants
\* ------------------------------------------------------------------------
retryAttempts == 3
retryDelay == 1000
maxRetryDelay == 30000
nonRetryableStatuses == {400, 401, 403, 404, 422}
minTextLength == 50
maxTextLength == 50000
defaultScore == 75
priorityEnum == {"low", "medium", "high", "critical"}

\* ------------------------------------------------------------------------
\* JSON values as the AI response may carry them
\* ------------------------------------------------------------------------
Num(n) == [t |-> "num", n |-> n]
Str == [t |-> "str", n |-> 0]
Missing == [t |-> "missing", n |-> 0]

Rec(p, s) == [priority |-> p, category |-> "general", hasSuggestion |-> s]
Section(name, score) == [name |-> name, score |-> score]

NoSections == [present |-> FALSE, items |-> << >>]
NoRecs == [present |-> FALSE, items |-> << >>]
Sections(items) == [present |-> TRUE, items |-> items]
Recs(items) == [present |-> TRUE, items |-> items]

\* a parsed JSON value: t is its JavaScript type, the fields are those of an
\* object (absent ones Missing / not present)
JValue(t, score, summary, sections, recs) ==
    [t |-> t, overallScore |-> score, hasSummary |-> summary,
     sections |-> sections, recommendations |-> recs]
JObject(score, summary, sections, recs) == JValue("object", score, summary, sections, recs)
JPrimitive(t) == JValue(t, Missing, FALSE, NoSections, NoRecs)
JEmptyObject == JObject(Missing, FALSE, NoSections, NoRecs)

\* response content: its textual shape and the JSON value its JSON part denotes
Content(shape, value) == [shape |-> shape, value |-> value]

\* ------------------------------------------------------------------------
\* PDF parser service: content validation of the extracted text
\* ------------------------------------------------------------------------
\* an uploaded PDF, by what the extractor can get out of it: whether pdf-parse
\* can parse it, the length of the cleaned text, and how many of its
\* whitespace-separated tokens are plausible words
\* (raw: pdf-parse returns a non-empty string; len: length after cleaning);
\* size: the size of the file in bytes, one megabyte unless said otherwise
Pdf(parses, raw, len, valid, total) ==
    [parses |-> parses, raw |-> raw, len |-> len,
     validWords |-> valid, totalWords |-> total, size |-> 1024 * 1024]
GoodPdf == Pdf(TRUE, TRUE, 200, 3, 4)
ScannedPdf == Pdf(TRUE, FALSE, 0, 0, 1)
BlankPdf == Pdf(TRUE, TRUE, 0, 0, 1)
ShortPdf == Pdf(TRUE, TRUE, 30, 3, 4)
GibberishPdf == Pdf(TRUE, TRUE, 200, 1, 4)
CorruptPdf == Pdf(FALSE, FALSE, 0, 0, 1)
Pdfs == {GoodPdf, ScannedPdf, BlankPdf, ShortPdf, GibberishPdf, CorruptPdf}
\* a good PDF of seven megabytes
LargePdf == [GoodPdf EXCEPT !.size = 7 * 1024 * 1024]

\* the message of an error as a sequence of its parts; << >> is "no error"
NoError == << >>

\* this.maxFileSize = parseInt(process.env.CV_UPLOAD_MAX_SIZE) || 5242880,
\* under the default configuration
maxFileSize == 5242880

\* validateFile: the file is there, not larger than maxFileSize and not empty
\* (the extension and the MIME type are those the upload filter let pass);
\* every failure is thrown as PDFParserError('File validation failed')
validateFile(fileThere, pdf) ==
    IF ~fileThere \/ pdf.size > maxFileSize \/ pdf.size = 0
        THEN <<"File validation failed">>
        ELSE NoError

\* validateExtractedContent: the error it throws, or NoError
\* (validWords / totalWords < 0.5 is 2 * validWords < totalWords)
validateExtractedContent(pdf) ==
    IF pdf.len = 0 THEN <<"No text extracted from PDF">>
    ELSE IF pdf.len < minTextLength
        THEN <<"Extracted text too short - possible parsing error">>
    ELSE IF pdf.len > maxTextLength THEN <<"Extracted text too long">>
    ELSE IF 2 * pdf.validWords < pdf.totalWords
        THEN <<"Low quality text extraction - possible corrupted PDF">>
    ELSE NoError

\* what disturbs one extraction from outside the file's content
ExtractionEvents == {"none", "timeout"}

\* a variant of the extraction that checks neither the raw text nor the
\* cleaned text
extractionInnerErrorUnvalidated(fileThere, pdf, event) ==
    IF validateFile(fileThere, pdf) # NoError THEN validateFile(fileThere, pdf)
    ELSE IF event = "timeout" THEN <<"PDF extraction timeout">>
    ELSE IF ~pdf.parses THEN <<"Invalid PDF structure">>
    ELSE NoError

\* extractTextFromPDF: the inner error (before wrapping), or NoError.
\* fileThere: the stored file still exists on disk
extractionInnerError(fileThere, pdf, event) ==
    IF validateFile(fileThere, pdf) # NoError THEN validateFile(fileThere, pdf)
    ELSE IF event = "timeout" THEN <<"PDF extraction timeout">>
    ELSE IF ~pdf.parses THEN <<"Invalid PDF structure">>
    ELSE IF ~pdf.raw THEN <<"Invalid text input for cleaning">>
    ELSE validateExtractedContent(pdf)

\* extractTextFromPDF wraps every inner error in a PDFParserError whose message
\* is fixed; the inner message is kept only as .details
extractTextFromPDF(fileThere, pdf, event) ==
    LET inner == extractionInnerError(fileThere, pdf, event) IN
    IF inner = NoError
        THEN [ok |-> TRUE, len |-> pdf.len, error |-> NoError]
        ELSE [ok |-> FALSE, len |-> 0, error |-> <<"Failed to extract text from PDF">>]

\* ------------------------------------------------------------------------
\* OpenAI service: retry policy
\* ------------------------------------------------------------------------
RECURSIVE Pow2(_)
Pow2(n) == IF n = 0 THEN 1 ELSE 2 * Pow2(n - 1)

Min(a, b) == IF a <= b THEN a ELSE b
Max(a, b) == IF a >= b THEN a ELSE b

\* a variant that treats only the authentication statuses as final
isNonRetryableErrorAuthOnly(status) == status \in {401, 403}

\* status 0 stands for an error without a status (network error, timeout)
isNonRetryableError(status) == status # 0 /\ status \in nonRetryableStatuses

backoffDelay(attempt) == Min(retryDelay * Pow2(attempt), maxRetryDelay)

\* a variant that sleeps after every failed attempt, the last one included
sleepsAfterEvery(attempt) == attempt < retryAttempts

\* the loop sleeps after a failed attempt only if another attempt follows
sleepsAfter(attempt) == attempt < retryAttempts - 1

\* ------------------------------------------------------------------------
\* OpenAI service: response parsing
\* ------------------------------------------------------------------------
Parsed(value) == [ok |-> TRUE, value |-> value]
ParseError == [ok |-> FALSE, value |-> JPrimitive("undefined")]

\* JSON.parse: succeeds only when the whole content is one JSON text
JSONParse(content) ==
    IF content.shape = "json" THEN Parsed(content.value) ELSE ParseError

\* content.match(/\{[\s\S]*\}/): the span from the first "{" to the last "}".
\* "wrapped": text around one JSON object; "braces": a span that is no JSON
hasBraceSpan(content) == content.shape \in {"wrapped", "braces"}
spanParses(content) == content.shape = "wrapped"

createFallbackStructure(content) ==
    JObject(Num(defaultScore), TRUE,
            Sections(<<Section("analysis", Missing)>>),
            Recs(<<Rec("medium", TRUE)>>))

\* a variant without the fallback: no parsable span gives null
extractJsonOrNull(content) ==
    IF hasBraceSpan(content) /\ spanParses(content)
        THEN content.value
        ELSE JPrimitive("null")

\* extractJsonFromContent: the span is parsed if there is one; no span, or a
\* span that does not parse, gives the fallback structure
extractJsonFromContent(content) ==
    IF hasBraceSpan(content) /\ spanParses(content)
        THEN content.value
        ELSE createFallbackStructure(content)

\* the `in` operator throws a TypeError on anything that is not an object
\* (arrays are objects)
inThrows(value) == value.t \notin {"object", "array"}

clampScore(score) ==
    IF score.t = "num" THEN Num(Max(0, Min(100, score.n))) ELSE Num(defaultScore)

\* validateResponseStructure, on a value `in` accepts: defaults for absent
\* fields, overallScore clamped; sections and recommendations pass as they are
validateResponseStructure(value) ==
    [t |-> value.t,
     overallScore |-> clampScore(value.overallScore),
     hasSummary |-> TRUE,
     sections |-> IF value.sections.present THEN value.sections ELSE Sections(<< >>),
     recommendations |->
        IF value.recommendations.present THEN value.recommendations ELSE Recs(<< >>)]

Thrown == [threw |-> TRUE, result |-> JEmptyObject]
Returned(value) == [threw |-> FALSE, result |-> value]

\* parseAndValidateResponse: throws on empty content and when validation
\* throws; otherwise returns the validated structure
parseAndValidateResponse(content) ==
    IF content.shape = "empty" THEN Thrown
    ELSE LET direct == JSONParse(content)
             parsed == IF direct.ok THEN direct.value
                       ELSE extractJsonFromContent(content)
         IN IF inThrows(parsed) THEN Thrown
            ELSE Returned(validateResponseStructure(parsed))

\* ------------------------------------------------------------------------
\* Inputs the environment may supply
\* ------------------------------------------------------------------------
GoodObject ==
    JObject(Num(85), TRUE, Sections(<<Section("atsCompatibility", Num(90))>>),
            Recs(<<Rec("high", TRUE)>>))
JArray == JValue("array", Missing, FALSE, NoSections, NoRecs)

JsonObjects ==
    { GoodObject,
      JEmptyObject,
      JObject(Str, FALSE, NoSections, NoRecs),
      JObject(Num(-20), FALSE, NoSections, NoRecs),
      JObject(Num(150), TRUE, NoSections, Recs(<< >>)),
      JObject(Num(85), TRUE, Sections(<<Section("skillsAlignment", Num(150))>>), NoRecs),
      JObject(Num(85), TRUE, NoSections, Recs(<<Rec("high", FALSE)>>)),
      JObject(Num(85), TRUE, NoSections, Recs(<<Rec("urgent", TRUE)>>)),
      JObject(Num(85), TRUE, NoSections, Recs(<<Rec("", TRUE)>>)) }

JsonNonObjects == { JPrimitive("null"), JPrimitive("number"), JPrimitive("string"), JArray }

Contents ==
    { Content("empty", JEmptyObject),
      Content("text", JEmptyObject),
      Content("braces", JEmptyObject),
      Content("wrapped", GoodObject) }
    \cup { Content("json", v) : v \in JsonObjects \cup JsonNonObjects }

ApiErrorStatuses == nonRetryableStatuses \cup {0, 429, 500}

ApiOutcome(ok, status, content) == [ok |-> ok, status |-> status, content |-> content]
ApiOutcomes ==
    { ApiOutcome(TRUE, 200, c) : c \in Contents }
    \cup { ApiOutcome(FALSE, s, Content("empty", JEmptyObject)) : s \in ApiErrorStatuses }

Levels == {"mid", "senior"}

\* ------------------------------------------------------------------------
\* State
\* ------------------------------------------------------------------------
VARIABLES
    records,    \* the CVAnalysis collection: id -> document
    files,      \* the upload directory: id -> stored file
    runs,       \* the performAnalysis invocations and where each stands
    nextId,     \* the next fresh record id
    last,       \* the step taken last, with the HTTP response of a request
    uploadRateLimit,    \* global.uploadRateLimit: user -> timestamps of its uploads
    accepted,   \* per user, the times at which the rate limiter called next()
    now,        \* Date.now()
    unreferenced,       \* files in the upload directory that no record refers to
    openAIService       \* the controller's OpenAIService instance: its counters

vars == <<records, files, runs, nextId, last, uploadRateLimit, accepted, now,
          unreferenced, openAIService>>

\* the state of the upload middleware
intake == <<uploadRateLimit, accepted, now, unreferenced>>

Placeholder == [placeholder |-> TRUE, len |-> 13]
Text(len) == [placeholder |-> FALSE, len |-> len]

Document(exists, user, level, text, status, score, summary, sections, recs, error) ==
    [exists |-> exists, userId |-> user, jobData |-> level, extractedText |-> text,
     processingStatus |-> status, overallScore |-> score, hasSummary |-> summary,
     sections |-> sections, recommendations |-> recs, errorMessage |-> error,
     openaiProcessing |-> << >>]

NoRecord ==
    Document(FALSE, "", "", Placeholder, "", << >>, FALSE, << >>, << >>, NoError)

NoFile == [there |-> FALSE, pdf |-> CorruptPdf]
StoredFile(pdf) == [there |-> TRUE, pdf |-> pdf]

NoResult == JEmptyObject

NoContent == Content("none", JEmptyObject)

\* one invocation of performAnalysis: where it stands (pc) and its locals;
\* calls, failures: the API attempts made and failed so far; lastStatus: the
\* status of the error just caught (lastError), NoStatus outside the catch
NoStatus == -1
Run(pc, rec, doc, len, attempt, calls, delays, status, content, result, error, cause) ==
    [pc |-> pc, rec |-> rec, doc |-> doc, textLen |-> len, attempt |-> attempt,
     calls |-> calls, failures |-> 0, delays |-> delays, lastStatus |-> status,
     content |-> content,
     result |-> result, error |-> error, cause |-> cause,
     usage |-> 0, openaiProcessing |-> << >>]

IdleRun ==
    Run("idle", 0, NoRecord, 0, 0, 0, << >>, NoStatus, NoContent, NoResult, NoError, "")
ScheduledRun(id) ==
    Run("load", id, NoRecord, 0, 0, 0, << >>, NoStatus, NoContent, NoResult, NoError, "")
\* the upload handler between saving the new record and scheduling its run
\* (it waits 100 ms), holding the document it has saved
WaitingUpload(id, doc) ==
    Run("wait", id, doc, 0, 0, 0, << >>, NoStatus, NoContent, NoResult, NoError, "")

Step(op, user, id, run, code, message, status, data) ==
    [op |-> op, user |-> user, id |-> id, run |-> run, code |-> code,
     message |-> message, status |-> status, data |-> data]

NoStep == Step("none", "", 0, 0, 0, "", "", {})
RunStep(op, k) == Step(op, "", runs[k].rec, k, 0, "", "", {})
NotFound(op, user, id) == Step(op, user, id, 0, 404, "Analysis not found", "", {})
\* the 500 response of a handler's own catch block
ServerError(op, user, id, message) == Step(op, user, id, 0, 500, message, "", {})

\* a path parameter that is no ObjectId ('invalid-id'): casting it in a filter
\* on _id throws a CastError
InvalidId == -1
RequestIds == Ids \cup {InvalidId}
castsToObjectId(id) == id \in Ids

Init ==
    /\ records = [i \in Ids |-> NoRecord]
    /\ files = [i \in Ids |-> NoFile]
    /\ runs = [k \in RunIds |-> IdleRun]
    /\ nextId = 1
    /\ last = NoStep
    /\ uploadRateLimit = [u \in Users |-> << >>]
    /\ accepted = [u \in Users |-> << >>]
    /\ now = 0
    /\ unreferenced = 0
    /\ openAIService = [tokensUsed |-> 0, processingStartTime |-> 0]

IdleRuns == {k \in RunIds : runs[k].pc = "idle"}
FreeRun == CHOOSE k \in IdleRuns : \A j \in IdleRuns : k <= j

\* ------------------------------------------------------------------------
\* Record store
\* ------------------------------------------------------------------------
\* a variant of the lookup without the owner in the filter
FindOneAnyOwner(id, user) == records[id].exists

\* CVAnalysis.findOne({ _id, userId })
FindOne(id, user) == records[id].exists /\ records[id].userId = user

\* a variant that leaves the status to the schema default
schemaDefaultStatus == "pending"

\* the status the controller writes on the record it creates
createdStatus == "processing"

NewRecord(user, level) ==
    Document(TRUE, user, level, Placeholder, createdStatus,
             << >>, FALSE, << >>, << >>, NoError)

\* a variant of the update that writes nothing
markAnalysisAsFailedNowhere(id, message) == records

\* a variant of the update that inserts the document when there is none
markAnalysisAsFailedUpsert(id, message) ==
    [records EXCEPT ![id].exists = TRUE,
                    ![id].processingStatus = "failed",
                    ![id].errorMessage = message]

\* CVAnalysis.findByIdAndUpdate(id, { processingStatus: 'failed', errorMessage })
markAnalysisAsFailed(id, message) ==
    IF records[id].exists
        THEN [records EXCEPT ![id].processingStatus = "failed",
                             ![id].errorMessage = message]
        ELSE records

\* the subdocument cast of a recommendation: a missing priority gets the
\* schema default
castRecommendation(r) ==
    [r EXCEPT !.priority = IF r.priority = "" THEN "medium" ELSE r.priority]
castRecommendations(items) == [i \in 1..Len(items) |-> castRecommendation(items[i])]

\* schema validation of the paths a run assigns
validRecommendation(r) == r.hasSuggestion /\ r.priority \in priorityEnum
validScore(score) == \A i \in 1..Len(score) : score[i] >= 0 /\ score[i] <= 100
validDocument(d) ==
    /\ validScore(d.overallScore)
    /\ \A i \in 1..Len(d.recommendations) : validRecommendation(d.recommendations[i])

\* document.save(): only the paths whose value differs from the loaded one are
\* written; the others keep what the collection holds
savePath(stored, loaded, assigned) == IF assigned # loaded THEN assigned ELSE stored
saveDocument(stored, loaded, assigned) ==
    [stored EXCEPT
        !.jobData = savePath(stored.jobData, loaded.jobData, assigned.jobData),
        !.extractedText =
            savePath(stored.extractedText, loaded.extractedText, assigned.extractedText),
        !.processingStatus =
            savePath(stored.processingStatus, loaded.processingStatus,
                     assigned.processingStatus),
        !.overallScore =
            savePath(stored.overallScore, loaded.overallScore, assigned.overallScore),
        !.hasSummary = savePath(stored.hasSummary, loaded.hasSummary, assigned.hasSummary),
        !.sections = savePath(stored.sections, loaded.sections, assigned.sections),
        !.recommendations =
            savePath(stored.recommendations, loaded.recommendations,
                     assigned.recommendations),
        !.errorMessage =
            savePath(stored.errorMessage, loaded.errorMessage, assigned.errorMessage),
        !.openaiProcessing =
            savePath(stored.openaiProcessing, loaded.openaiProcessing,
                     assigned.openaiProcessing)]

\* ------------------------------------------------------------------------
\* HTTP handlers of the CV analyzer controller
\* ------------------------------------------------------------------------
\* uploadAndAnalyzeCV once its checks have passed, up to its wait: the new
\* record is saved (the state of the upload middleware is left to the route,
\* see PostUpload)
uploadAndAnalyzeCV(user, level, pdf) ==
    /\ nextId <= MaxRecords
    /\ IdleRuns # {}
    /\ records' = [records EXCEPT ![nextId] = NewRecord(user, level)]
    /\ files' = [files EXCEPT ![nextId] = StoredFile(pdf)]
    /\ runs' = [runs EXCEPT ![FreeRun] = WaitingUpload(nextId, NewRecord(user, level))]
    /\ nextId' = nextId + 1
    /\ last' = Step("uploadSaved", user, nextId, FreeRun, 0, "", "", {})

\* uploadAndAnalyzeCV after its wait: this.performAnalysis(analysis._id) starts
\* the run, which goes as far as its first await, and the 202 response is sent
uploadAndAnalyzeCVRespond(k) ==
    LET r == runs[k] IN
    /\ r.pc = "wait"
    /\ runs' = [runs EXCEPT ![k] = ScheduledRun(r.rec)]
    /\ last' = Step("upload", r.doc.userId, r.rec, k, 202,
                    "CV uploaded successfully. Analysis is in progress.",
                    r.doc.processingStatus, {r.rec})
    /\ UNCHANGED <<records, files, nextId, intake, openAIService>>

\* ------------------------------------------------------------------------
\* POST /upload: rateLimitCVUpload, uploadCV, validateCVUploadRequest, controller
\* ------------------------------------------------------------------------
windowMs == 60000
maxUploads == 5
maxTitleLength == 200
minMajorLength == 2
maxMajorLength == 100
validExperienceLevels == {"entry", "mid", "senior", "executive"}

\* the clock advances in steps of half a window, MaxTicks times at most
MaxTicks == 2
ClockStep == windowMs \div 2
\* files left in the upload directory are counted up to MaxUnreferenced
MaxUnreferenced == 1
\* multer's limits.fileSize
fileSizeLimit == 10 * 1024 * 1024

\* the multipart part "cv": its content type, its extension, whether it is
\* over the multer size limit, and the PDF it holds
NoPart == [present |-> FALSE, mimetype |-> "", extension |-> "", oversize |-> FALSE,
           pdf |-> CorruptPdf]
Part(mimetype, extension, oversize, pdf) ==
    [present |-> TRUE, mimetype |-> mimetype, extension |-> extension,
     oversize |-> oversize, pdf |-> pdf]
PdfPart(pdf) == Part("application/pdf", ".pdf", FALSE, pdf)

\* an upload request: the file part and the body fields (majorLength: length of
\* the trimmed major, 0 when the field is missing; jobId: "", "hex24" or
\* another string; titleLength: length of targetJobTitle)
UploadRequest(file, level, majorLength, jobId, titleLength) ==
    [file |-> file, experienceLevel |-> level, majorLength |-> majorLength,
     jobId |-> jobId, titleLength |-> titleLength]
ValidUpload(level, pdf) == UploadRequest(PdfPart(pdf), level, 16, "", 0)

\* a response of the upload route that is not the controller's 202
UploadResponse(user, code, message) == Step("upload", user, 0, 0, code, message, "", {})

\* a variant of the limiter's filter that counts the uploads of every user
validUploadsOfAnyUser(user) ==
    LET u1 == CHOOSE u \in Users : TRUE
        u2 == CHOOSE u \in Users : u # u1
    IN SelectSeq(uploadRateLimit[u1] \o uploadRateLimit[u2],
                 LAMBDA t : now - t < windowMs)

\* userUploads.filter(timestamp => now - timestamp < windowMs)
validUploads(user) == SelectSeq(uploadRateLimit[user], LAMBDA t : now - t < windowMs)

\* rateLimitCVUpload: whether the request is turned away with 429
rateLimited(user) == Len(validUploads(user)) >= maxUploads

\* fileFilter and the multer limits: the message of the 400 response, or ""
uploadCVError(file) ==
    IF ~file.present THEN ""
    ELSE IF file.mimetype # "application/pdf" THEN "Only PDF files are allowed"
    ELSE IF file.extension # ".pdf"
        THEN "Invalid file extension. Only .pdf files are allowed"
    ELSE IF file.oversize THEN "File size too large. Maximum size is 10MB"
    ELSE ""

\* a variant of the body validation without the jobId check
validateCVUploadRequestNoJobId(req) ==
    IF req.experienceLevel = "" THEN "Experience level is required"
    ELSE IF req.majorLength = 0 THEN "Major field is required"
    ELSE IF req.experienceLevel \notin validExperienceLevels
        THEN "Invalid experience level"
    ELSE IF req.majorLength < minMajorLength \/ req.majorLength > maxMajorLength
        THEN "Major field must be between 2 and 100 characters"
    ELSE ""

\* validateCVUploadRequest: the message of the 400 response, or ""
validateCVUploadRequest(req) ==
    IF req.experienceLevel = "" THEN "Experience level is required"
    ELSE IF req.majorLength = 0 THEN "Major field is required"
    ELSE IF req.experienceLevel \notin validExperienceLevels
        THEN "Invalid experience level"
    ELSE IF req.majorLength < minMajorLength \/ req.majorLength > maxMajorLength
        THEN "Major field must be between 2 and 100 characters"
    ELSE IF req.jobId # "" /\ req.jobId # "hex24" THEN "Invalid job ID format"
    ELSE ""

\* a variant of the controller's catch block that leaves the file in place
leftAfterFailedSaveKeepingFile(stored) == stored

\* the controller's catch block: fs.unlink(req.file.path); the number of files
\* of this request left in the upload directory
leftAfterFailedSave(stored) == 0

\* analysis.save() validates the new document: targetJobTitle has a maxlength
\* that no middleware checks
savesNewRecord(req) == req.titleLength <= maxTitleLength

\* the route, middleware by middleware; a middleware that answers ends the chain
PostUpload(user, req) ==
    LET passed == Append(validUploads(user), now)
        stored == IF req.file.present /\ uploadCVError(req.file) = "" THEN 1 ELSE 0
    IN
    IF rateLimited(user)
        THEN /\ last' = UploadResponse(user, 429,
                            "Too many upload requests. Please try again later.")
             /\ UNCHANGED <<records, files, runs, nextId, intake, openAIService>>
    ELSE
        /\ uploadRateLimit' = [uploadRateLimit EXCEPT ![user] = passed]
        /\ accepted' = [accepted EXCEPT ![user] = Append(accepted[user], now)]
        /\ UNCHANGED <<now, openAIService>>
        /\ IF uploadCVError(req.file) # ""
             THEN /\ last' = UploadResponse(user, 400, uploadCVError(req.file))
                  /\ UNCHANGED <<records, files, runs, nextId, unreferenced>>
           ELSE IF validateCVUploadRequest(req) # ""
             THEN /\ unreferenced + stored <= MaxUnreferenced
                  /\ unreferenced' = unreferenced + stored
                  /\ last' = UploadResponse(user, 400, validateCVUploadRequest(req))
                  /\ UNCHANGED <<records, files, runs, nextId>>
           ELSE IF ~req.file.present
             THEN /\ last' = UploadResponse(user, 400, "No CV file uploaded")
                  /\ UNCHANGED <<records, files, runs, nextId, unreferenced>>
           ELSE IF ~savesNewRecord(req)
             THEN /\ unreferenced + leftAfterFailedSave(stored) <= MaxUnreferenced
                  /\ unreferenced' = unreferenced + leftAfterFailedSave(stored)
                  /\ last' = UploadResponse(user, 500, "Failed to upload and analyze CV")
                  /\ UNCHANGED <<records, files, runs, nextId>>
           ELSE /\ uploadAndAnalyzeCV(user, req.experienceLevel, req.file.pdf)
                /\ UNCHANGED unreferenced

\* time passes
Tick ==
    /\ now < MaxTicks * ClockStep
    /\ now' = now + ClockStep
    /\ last' = Step("tick", "", 0, 0, 0, "", "", {})
    /\ UNCHANGED <<records, files, runs, nextId, uploadRateLimit, accepted, unreferenced,
                   openAIService>>

\* GET /results/:analysisId
getAnalysisResults(user, id) ==
    /\ last' = IF ~castsToObjectId(id)
                 THEN ServerError("results", user, id,
                                  "Failed to retrieve analysis results")
               ELSE IF FindOne(id, user)
                 THEN Step("results", user, id, 0, 200, "",
                           records[id].processingStatus, {id})
                 ELSE NotFound("results", user, id)
    /\ UNCHANGED <<records, files, runs, nextId, intake, openAIService>>

\* the filters the history query can carry: none, or a status value
StatusFilters == {"", "processing", "completed"}

\* CVAnalysis.paginate({ userId, status }): the schema has no path "status"
\* (the field is processingStatus). With strictQuery the unknown path is
\* dropped from the filter; without it the filter reaches the database, where
\* no document has such a field. Which one holds is the Mongoose version's
\* default.
historyQuery(user, status, strictQuery) ==
    {i \in Ids : /\ records[i].exists
                 /\ records[i].userId = user
                 /\ (status = "" \/ strictQuery)}

\* GET /history?status=...; the step records the filter in its status field
getAnalysisHistory(user, status, strictQuery) ==
    /\ last' = Step("history", user, 0, 0, 200, "", status,
                    historyQuery(user, status, strictQuery))
    /\ UNCHANGED <<records, files, runs, nextId, intake, openAIService>>

\* the reset reanalyzeCV applies to the loaded document
resetForReanalysis(d, level) ==
    [d EXCEPT !.jobData = IF level # "" THEN level ELSE d.jobData,
              !.processingStatus = "processing",
              !.overallScore = << >>,
              !.hasSummary = FALSE,
              !.sections = << >>,
              !.recommendations = << >>,
              !.openaiProcessing = << >>,
              !.errorMessage = NoError]

\* POST /reanalyze/:analysisId
reanalyzeCV(user, id, level) ==
    IF ~castsToObjectId(id)
        THEN /\ last' = ServerError("reanalyze", user, id, "Failed to reanalyze CV")
             /\ UNCHANGED <<records, files, runs, nextId, intake, openAIService>>
    ELSE IF FindOne(id, user)
        THEN /\ IdleRuns # {}
             /\ records' = [records EXCEPT ![id] =
                    saveDocument(records[id], records[id],
                                 resetForReanalysis(records[id], level))]
             /\ runs' = [runs EXCEPT ![FreeRun] = ScheduledRun(id)]
             /\ last' = Step("reanalyze", user, id, FreeRun, 200,
                             "CV reanalysis started successfully", "processing", {id})
             /\ UNCHANGED <<files, nextId, intake, openAIService>>
        ELSE /\ last' = NotFound("reanalyze", user, id)
             /\ UNCHANGED <<records, files, runs, nextId, intake, openAIService>>

\* DELETE /:analysisId
deleteAnalysis(user, id) ==
    IF ~castsToObjectId(id)
        THEN /\ last' = ServerError("delete", user, id, "Failed to delete analysis")
             /\ UNCHANGED <<records, files, runs, nextId, intake, openAIService>>
    ELSE IF FindOne(id, user)
        THEN /\ files' = [files EXCEPT ![id].there = FALSE]
             /\ records' = [records EXCEPT ![id] = NoRecord]
             /\ last' = Step("delete", user, id, 0, 200,
                             "Analysis deleted successfully", "", {})
             /\ UNCHANGED <<runs, nextId, intake, openAIService>>
        ELSE /\ last' = NotFound("delete", user, id)
             /\ UNCHANGED <<records, files, runs, nextId, intake, openAIService>>

\* ------------------------------------------------------------------------
\* performAnalysis: one background run, step by step (one step per await)
\* ------------------------------------------------------------------------
\* a variant in which a thrown error does not end the stages: the error is
\* noted and the run goes on to the AI call
FailAndGoOn(r, message, cause) ==
    [r EXCEPT !.pc = "call", !.error = message, !.cause = cause]

\* an error thrown inside performAnalysis lands in its catch block
Fail(r, message, cause) ==
    [r EXCEPT !.pc = "mark1", !.error = message, !.cause = cause,
              !.doc = NoRecord, !.result = NoResult,
              !.usage = 0, !.openaiProcessing = << >>]

\* const analysis = await CVAnalysis.findById(analysisId)
RunLoad(k) ==
    LET r == runs[k] IN
    /\ r.pc = "load"
    /\ runs' = [runs EXCEPT ![k] =
            IF records[r.rec].exists
                THEN [r EXCEPT !.pc = "extract", !.doc = records[r.rec]]
                ELSE Fail(r, <<"Analysis record not found">>, "notfound")]
    /\ last' = RunStep("run", k)
    /\ UNCHANGED <<records, files, nextId, intake, openAIService>>

\* await this.pdfParserService.extractTextFromPDF(analysis.filePath, ...)
RunExtract(k, event) ==
    LET r == runs[k]
        res == extractTextFromPDF(files[r.rec].there, files[r.rec].pdf, event)
    IN
    /\ r.pc = "extract"
    /\ runs' = [runs EXCEPT ![k] =
            IF res.ok
                THEN [r EXCEPT !.pc = "saveText", !.textLen = res.len]
                ELSE Fail(r, <<"Failed to extract text from CV: ">> \o res.error,
                          "extraction")]
    /\ last' = RunStep("run", k)
    /\ UNCHANGED <<records, files, nextId, intake, openAIService>>

\* analysis.extractedText = extractedText; await analysis.save(), which
\* rejects an empty extractedText (the path is required); then the check that
\* there is content to analyze, and the call of analyzeCV, which notes its
\* start time on the service and goes as far as its first API attempt
RunSaveText(k) ==
    LET r == runs[k]
        assigned == [r.doc EXCEPT !.extractedText = Text(r.textLen)]
    IN
    /\ r.pc = "saveText"
    /\ IF ~records[r.rec].exists
         THEN /\ runs' = [runs EXCEPT ![k] =
                    Fail(r, <<"Failed to extract text from CV: ",
                              "No document found for query">>, "extraction")]
              /\ UNCHANGED <<records, openAIService>>
       ELSE IF r.textLen = 0
         THEN /\ runs' = [runs EXCEPT ![k] =
                    Fail(r, <<"Failed to extract text from CV: ",
                              "CVAnalysis validation failed">>, "extraction")]
              /\ UNCHANGED <<records, openAIService>>
         ELSE /\ records' = [records EXCEPT ![r.rec] =
                    saveDocument(records[r.rec], r.doc, assigned)]
              /\ runs' = [runs EXCEPT ![k] =
                    IF r.textLen = 0
                        THEN Fail(r, <<"No text content found in the uploaded CV">>,
                                  "notext")
                        ELSE [r EXCEPT !.pc = "call", !.doc = assigned]]
              /\ openAIService' = [openAIService EXCEPT !.processingStartTime = now]
    /\ last' = RunStep("run", k)
    /\ UNCHANGED <<files, nextId, intake>>

\* response.usage.total_tokens of an API response; a response without usage
\* data counts for nothing
totalTokens(outcome) == IF "usage" \in DOMAIN outcome THEN outcome.usage ELSE 0

\* trackUsage: this.tokensUsed += usage.total_tokens || 0
trackUsage(service, tokens) == [service EXCEPT !.tokensUsed = service.tokensUsed + tokens]

\* the openaiProcessing metadata analyzeCV returns, read off the service (the
\* cost is calculateCost of tokensUsed, and the model name is fixed)
usageMetadata(service) ==
    <<[tokensUsed |-> service.tokensUsed,
       processingTime |-> now - service.processingStartTime]>>

\* one pass of the loop of makeAPICallWithRetry, up to its await; a response
\* goes through parseAndValidateResponse and trackUsage and back to
\* performAnalysis
RunCall(k, outcome) ==
    LET r == runs[k]
        called == [r EXCEPT !.calls = r.calls + 1]
        failed == [called EXCEPT !.failures = r.failures + 1,
                                 !.lastStatus = outcome.status]
        parsed == parseAndValidateResponse(outcome.content)
        tracked == trackUsage(openAIService, totalTokens(outcome))
    IN
    /\ r.pc = "call"
    /\ openAIService' = IF outcome.ok /\ ~parsed.threw THEN tracked ELSE openAIService
    /\ runs' = [runs EXCEPT ![k] =
            IF outcome.ok
                THEN IF parsed.threw
                        THEN Fail([called EXCEPT !.content = outcome.content],
                                  <<"CV analysis failed">>, "parse")
                        ELSE [called EXCEPT !.pc = "saveResult", !.content = outcome.content,
                                             !.result = parsed.result,
                                             !.usage = totalTokens(outcome),
                                             !.openaiProcessing = usageMetadata(tracked)]
            ELSE IF isNonRetryableError(outcome.status)
                THEN Fail(failed, <<"CV analysis failed">>, "api-nonretryable")
            ELSE IF sleepsAfter(r.attempt)
                THEN [failed EXCEPT !.pc = "sleep"]
            ELSE Fail([failed EXCEPT !.attempt = r.attempt + 1],
                      <<"CV analysis failed">>, "api-exhausted")]
    /\ last' = RunStep("run", k)
    /\ UNCHANGED <<records, files, nextId, intake>>

\* await this.sleep(delay), then the next pass of the loop
RunSleep(k) ==
    LET r == runs[k] IN
    /\ r.pc = "sleep"
    /\ runs' = [runs EXCEPT ![k] =
            [r EXCEPT !.pc = "call", !.attempt = r.attempt + 1, !.lastStatus = NoStatus,
                      !.delays = Append(r.delays, backoffDelay(r.attempt))]]
    /\ last' = RunStep("run", k)
    /\ UNCHANGED <<records, files, nextId, intake, openAIService>>

\* the result fields performAnalysis assigns to the loaded document
assignResult(d, result) ==
    [d EXCEPT !.overallScore = <<result.overallScore.n>>,
              !.hasSummary = result.hasSummary,
              !.sections = result.sections.items,
              !.recommendations = castRecommendations(result.recommendations.items),
              !.processingStatus = "completed"]

\* the locals of a stage are dead once the run has left it
Marked(r) ==
    [r EXCEPT !.pc = "mark2", !.textLen = 0, !.attempt = 0, !.calls = 0,
              !.failures = 0, !.delays = << >>, !.lastStatus = NoStatus,
              !.content = NoContent]
Finished(r) ==
    [Marked(r) EXCEPT !.pc = "done", !.doc = NoRecord, !.result = NoResult,
                      !.error = NoError, !.usage = 0, !.openaiProcessing = << >>]

\* analysis.overallScore = ...; analysis.processingStatus = 'completed';
\* await analysis.save()
RunSaveResult(k) ==
    LET r == runs[k]
        assigned == [assignResult(r.doc, r.result) EXCEPT
                        !.openaiProcessing = r.openaiProcessing]
    IN
    /\ r.pc = "saveResult"
    /\ IF ~validDocument(assigned)
         THEN /\ runs' = [runs EXCEPT ![k] =
                    Fail(r, <<"CVAnalysis validation failed">>, "validation")]
              /\ UNCHANGED records
       ELSE IF ~records[r.rec].exists
         THEN /\ runs' = [runs EXCEPT ![k] =
                    Fail(r, <<"No document found for query">>, "persistence")]
              /\ UNCHANGED records
       ELSE /\ records' = [records EXCEPT ![r.rec] =
                    saveDocument(records[r.rec], r.doc, assigned)]
            /\ runs' = [runs EXCEPT ![k] = Finished(r)]
    /\ last' = RunStep("run", k)
    /\ UNCHANGED <<files, nextId, intake, openAIService>>

\* catch (error) { await this.markAnalysisAsFailed(analysisId, error.message);
\* throw error }
RunMarkFailed(k) ==
    LET r == runs[k] IN
    /\ r.pc = "mark1"
    /\ records' = markAnalysisAsFailed(r.rec, r.error)
    /\ runs' = [runs EXCEPT ![k] = Marked(r)]
    /\ last' = RunStep("markFailed", k)
    /\ UNCHANGED <<files, nextId, intake, openAIService>>

\* the caller's .catch(error => this.markAnalysisAsFailed(id, error.message))
RunCallerCatch(k) ==
    LET r == runs[k] IN
    /\ r.pc = "mark2"
    /\ records' = markAnalysisAsFailed(r.rec, r.error)
    /\ runs' = [runs EXCEPT ![k] = Finished(r)]
    /\ last' = RunStep("markFailed", k)
    /\ UNCHANGED <<files, nextId, intake, openAIService>>

\* ------------------------------------------------------------------------
\* Specification
\* ------------------------------------------------------------------------
\* the state-changing requests, issued by users, uploading PDFs out of pdfs
Requests(users, pdfs, levels) ==
    \/ \E u \in users, l \in levels, p \in pdfs : PostUpload(u, ValidUpload(l, p))
    \/ \E k \in RunIds : uploadAndAnalyzeCVRespond(k)
    \/ \E u \in users, i \in Ids, l \in (Levels \ levels) \cup {""} : reanalyzeCV(u, i, l)
    \/ \E u \in users, i \in Ids : deleteAnalysis(u, i)

\* the read-only requests
Reads(users, ids, filters) ==
    \/ \E u \in users, i \in ids : getAnalysisResults(u, i)
    \/ \E u \in users, s \in filters, q \in BOOLEAN : getAnalysisHistory(u, s, q)

\* the steps of the background runs, the AI API behaving as one of outcomes
Runs(outcomes) ==
    \/ \E k \in RunIds : RunLoad(k)
    \/ \E k \in RunIds, e \in ExtractionEvents : RunExtract(k, e)
    \/ \E k \in RunIds : RunSaveText(k)
    \/ \E k \in RunIds, o \in outcomes : RunCall(k, o)
    \/ \E k \in RunIds : RunSleep(k)
    \/ \E k \in RunIds : RunSaveResult(k)
    \/ \E k \in RunIds : RunMarkFailed(k)
    \/ \E k \in RunIds : RunCallerCatch(k)

\* The pipeline: one user's uploads, reanalyses and deletes, with every
\* behaviour of the extractor and of the AI API.
Next ==
    \/ Requests({"userA"}, {GoodPdf, ScannedPdf}, {"mid"})
    \/ Runs(ApiOutcomes)
Spec == Init /\ [][Next]_vars

\* Access: every request of two users, the runs with an AI API that answers
\* well, answers with plain text, or fails.
AccessOutcomes ==
    { ApiOutcome(TRUE, 200, Content("wrapped", GoodObject)),
      ApiOutcome(TRUE, 200, Content("text", JEmptyObject)),
      ApiOutcome(FALSE, 401, Content("empty", JEmptyObject)),
      ApiOutcome(FALSE, 500, Content("empty", JEmptyObject)) }
NextAccess ==
    \/ Requests(Users, {GoodPdf}, {"mid"})
    \/ Reads(Users, Ids, {""})
    \/ Runs(AccessOutcomes)
SpecAccess == Init /\ [][NextAccess]_vars

\* Intake: the upload route under every kind of request of one user, and
\* the first step of the runs of the accepted uploads.
UploadRequests ==
    { ValidUpload("mid", GoodPdf),
      UploadRequest(PdfPart(GoodPdf), "mid", 16, "hex24", 0),
      UploadRequest(NoPart, "mid", 16, "", 0),
      UploadRequest(Part("image/png", ".pdf", FALSE, CorruptPdf), "mid", 16, "", 0),
      UploadRequest(Part("application/pdf", ".png", FALSE, CorruptPdf), "mid", 16, "", 0),
      UploadRequest(Part("application/pdf", ".pdf", TRUE, GoodPdf), "mid", 16, "", 0),
      UploadRequest(PdfPart(GoodPdf), "", 16, "", 0),
      UploadRequest(PdfPart(GoodPdf), "beginner", 16, "", 0),
      UploadRequest(PdfPart(GoodPdf), "mid", 0, "", 0),
      UploadRequest(PdfPart(GoodPdf), "mid", 1, "", 0),
      UploadRequest(NoPart, "mid", 101, "", 0),
      UploadRequest(PdfPart(GoodPdf), "mid", 16, "invalid-id", 0),
      UploadRequest(PdfPart(GoodPdf), "mid", 16, "", 201) }
NextIntake ==
    \/ \E r \in UploadRequests : PostUpload("userA", r)
    \/ \E k \in RunIds : uploadAndAnalyzeCVRespond(k)
    \/ \E k \in RunIds : RunLoad(k)
SpecIntake == Init /\ [][NextIntake]_vars

\* Rate limiting: user A's uploads, accepted by the controller or not, user
\* B's requests without a file, and time passing.
LimiterRequests == {ValidUpload("mid", GoodPdf), UploadRequest(NoPart, "mid", 16, "", 0)}
NextLimiter ==
    \/ \E r \in LimiterRequests : PostUpload("userA", r)
    \/ PostUpload("userB", UploadRequest(NoPart, "mid", 16, "", 0))
    \/ \E k \in RunIds : uploadAndAnalyzeCVRespond(k)
    \/ Tick
SpecLimiter == Init /\ [][NextLimiter]_vars

\* Queries: two users' uploads, their runs up to completion or failure with
\* an AI API that answers well, and every read, with and without a status
\* filter, with well-formed and malformed ids.
QueryOutcomes == {ApiOutcome(TRUE, 200, Content("json", GoodObject))}
NextQueries ==
    \/ \E u \in Users, p \in {GoodPdf, ScannedPdf} : PostUpload(u, ValidUpload("mid", p))
    \/ \E k \in RunIds : uploadAndAnalyzeCVRespond(k)
    \/ Reads(Users, RequestIds, StatusFilters)
    \/ \E u \in Users : reanalyzeCV(u, InvalidId, "")
    \/ \E u \in Users : deleteAnalysis(u, InvalidId)
    \/ \E k \in RunIds : RunLoad(k)
    \/ \E k \in RunIds : RunExtract(k, "none")
    \/ \E k \in RunIds : RunSaveText(k)
    \/ \E k \in RunIds, o \in QueryOutcomes : RunCall(k, o)
    \/ \E k \in RunIds : RunSaveResult(k)
    \/ \E k \in RunIds : RunMarkFailed(k)
    \/ \E k \in RunIds : RunCallerCatch(k)
SpecQueries == Init /\ [][NextQueries]_vars

\* Usage: two users' uploads of a good PDF, their runs with an AI API whose
\* responses report the tokens they used, and time passing.
ApiOutcomeWithUsage(content, tokens) ==
    [ok |-> TRUE, status |-> 200, content |-> content, usage |-> tokens]
UsageOutcomes == {ApiOutcomeWithUsage(Content("json", GoodObject), 1200)}
NextUsage ==
    \/ \E u \in Users : PostUpload(u, ValidUpload("mid", GoodPdf))
    \/ \E k \in RunIds : uploadAndAnalyzeCVRespond(k)
    \/ \E k \in RunIds : RunLoad(k)
    \/ \E k \in RunIds : RunExtract(k, "none")
    \/ \E k \in RunIds : RunSaveText(k)
    \/ \E k \in RunIds, o \in UsageOutcomes : RunCall(k, o)
    \/ \E k \in RunIds : RunSaveResult(k)
    \/ Tick
SpecUsage == Init /\ [][NextUsage]_vars

\* Sizes: one user's uploads of good PDFs of one and of seven megabytes, and
\* their runs up to the end of the extraction, which nothing disturbs.
NextSizes ==
    \/ \E p \in {GoodPdf, LargePdf} : PostUpload("userA", ValidUpload("mid", p))
    \/ \E k \in RunIds : uploadAndAnalyzeCVRespond(k)
    \/ \E k \in RunIds : RunLoad(k)
    \/ \E k \in RunIds : RunExtract(k, "none")
    \/ \E k \in RunIds : RunSaveText(k)
    \/ \E k \in RunIds : RunMarkFailed(k)
    \/ \E k \in RunIds : RunCallerCatch(k)
SpecSizes == Init /\ [][NextSizes]_vars

\* Progress: one user's uploads, reanalyses and deletes, the extractor
\* succeeding, failing or timing out, and an AI API that answers well, fails
\* with a retryable error or fails with a final one. Node's event loop runs
\* every continuation that is ready: the upload handler resumes after its
\* wait, and a run resumes after each await (every awaited operation settles:
\* the extractor has its timeouts, the retry loop its ceiling).
ProgressOutcomes ==
    { ApiOutcome(TRUE, 200, Content("json", GoodObject)),
      ApiOutcome(FALSE, 500, Content("empty", JEmptyObject)),
      ApiOutcome(FALSE, 401, Content("empty", JEmptyObject)) }
performAnalysis(k) ==
    \/ RunLoad(k)
    \/ \E e \in ExtractionEvents : RunExtract(k, e)
    \/ RunSaveText(k)
    \/ \E o \in ProgressOutcomes : RunCall(k, o)
    \/ RunSleep(k)
    \/ RunSaveResult(k)
    \/ RunMarkFailed(k)
    \/ RunCallerCatch(k)
NextProgress ==
    \/ Requests({"userA"}, {GoodPdf}, {"mid"})
    \/ \E k \in RunIds : performAnalysis(k)
EventLoop ==
    \A k \in RunIds :
        /\ WF_vars(uploadAndAnalyzeCVRespond(k))
        /\ WF_vars(performAnalysis(k))
SpecProgress == Init /\ [][NextProgress]_vars /\ EventLoop

\* ------------------------------------------------------------------------
\* Properties
\* ------------------------------------------------------------------------
Terminal == {"completed", "failed"}
StatusRank(status) ==
    IF status = "pending" THEN 0 ELSE IF status = "processing" THEN 1 ELSE 2

Existing == {i \in Ids : records[i].exists}
ActiveRuns == {k \in RunIds : runs[k].pc # "idle"}

\* C1: the status of a record only moves forward along pending, processing,
\* {completed, failed}: no step takes it to an earlier status, and no step
\* changes a status that is completed or failed.
C1_StatusMonotonic ==
    [][\A i \in Ids :
        (records[i].exists /\ records'[i].exists) =>
            \/ records'[i].processingStatus = records[i].processingStatus
            \/ /\ records[i].processingStatus \notin Terminal
               /\ StatusRank(records'[i].processingStatus)
                    >= StatusRank(records[i].processingStatus)]_vars

\* the request of the step just taken targets a record owned by another user
ForeignRequest(step, recs) ==
    /\ step.op \in {"results", "reanalyze", "delete"}
    /\ recs[step.id].exists
    /\ recs[step.id].userId # step.user

\* C2: a results fetch, reanalyze or delete of another user's record is
\* answered exactly as for a nonexistent id (404 "Analysis not found", no
\* data), changes neither the records nor the files, and schedules no run;
\* and a history listing holds only records of the user who asked.
C2_OwnershipIsolation ==
    [][/\ ForeignRequest(last', records) =>
            /\ last' = NotFound(last'.op, last'.user, last'.id)
            /\ records' = records
            /\ files' = files
            /\ runs' = runs
       /\ last'.op = "history" =>
            \A i \in last'.data : records[i].exists /\ records[i].userId = last'.user]_vars

\* C2 witness: user B's delete of a record user A owns has just been answered
C2_Witness ==
    /\ last.op = "delete"
    /\ last.user = "userB"
    /\ records[last.id].exists
    /\ records[last.id].userId = "userA"

\* C3: a mark-failed write on a record that is already completed or failed
\* leaves its status and its errorMessage as they were.
C3_TerminalWritesIdempotent ==
    [][(/\ last'.op = "markFailed"
        /\ records[last'.id].exists
        /\ records[last'.id].processingStatus \in Terminal) =>
            /\ records'[last'.id].processingStatus = records[last'.id].processingStatus
            /\ records'[last'.id].errorMessage = records[last'.id].errorMessage]_vars

InRange(n) == n >= 0 /\ n <= 100

\* C4: every completed record has an overallScore within 0..100, and every
\* numeric section score it stores is within 0..100.
C4_ScoresInRange ==
    \A i \in Existing :
        records[i].processingStatus = "completed" =>
            /\ Len(records[i].overallScore) = 1
            /\ InRange(records[i].overallScore[1])
            /\ \A j \in 1..Len(records[i].sections) :
                  records[i].sections[j].score.t = "num" =>
                      InRange(records[i].sections[j].score.n)

NonDecreasing(seq) == \A j \in 1..(Len(seq) - 1) : seq[j] <= seq[j + 1]

\* the run has just had its last API attempt fail, every attempt having failed
\* with a retryable error
AllAttemptsFailedRetryably(r) ==
    /\ r.pc = "mark1"
    /\ r.calls > 0
    /\ r.failures = r.calls
    /\ r.lastStatus \notin {400, 401, 403, 404, 422}

\* the step just taken is the mark-failed write of run k
JustMarkedBy(k) == last.op = "markFailed" /\ last.run = k

\* C5: a run whose API attempts all fail with a retryable error makes exactly
\* retryAttempts attempts, sleeps retryAttempts - 1 delays that do not
\* decrease and do not exceed maxRetryDelay, never sleeps after the last
\* attempt, and then marks the record failed.
C5_RetryCeiling ==
    \A k \in RunIds :
        /\ runs[k].calls <= retryAttempts
        /\ runs[k].pc = "sleep" => runs[k].calls < retryAttempts
        /\ NonDecreasing(runs[k].delays)
        /\ \A j \in 1..Len(runs[k].delays) : runs[k].delays[j] <= maxRetryDelay
        /\ AllAttemptsFailedRetryably(runs[k]) =>
              /\ runs[k].calls = retryAttempts
              /\ Len(runs[k].delays) = retryAttempts - 1
              /\ runs[k].cause = "api-exhausted"
        /\ (JustMarkedBy(k) /\ runs[k].cause = "api-exhausted"
                /\ records[runs[k].rec].exists) =>
              /\ records[runs[k].rec].processingStatus = "failed"
              /\ records[runs[k].rec].errorMessage # NoError

\* C5 witness: a run has exhausted its attempts and marked its record failed
C5_Witness ==
    \E k \in RunIds :
        /\ JustMarkedBy(k)
        /\ runs[k].cause = "api-exhausted"
        /\ records[runs[k].rec].exists

\* C6: an API attempt that fails with status 400, 401, 403, 404 or 422 is the
\* run's last attempt: the run goes straight to its failure path, having
\* slept only after the earlier failures, and marks the record failed.
C6_NonRetryableImmediate ==
    \A k \in RunIds :
        /\ runs[k].lastStatus \in {400, 401, 403, 404, 422} =>
              /\ runs[k].pc = "mark1"
              /\ runs[k].cause = "api-nonretryable"
              /\ runs[k].failures = runs[k].calls
              /\ Len(runs[k].delays) = runs[k].calls - 1
        /\ (JustMarkedBy(k) /\ runs[k].cause = "api-nonretryable"
                /\ records[runs[k].rec].exists) =>
              /\ records[runs[k].rec].processingStatus = "failed"
              /\ records[runs[k].rec].errorMessage # NoError

\* C6 witness: a run failed on a 422 at its second attempt, after one delay
C6_Witness ==
    \E k \in RunIds :
        /\ runs[k].lastStatus = 422
        /\ runs[k].calls = 2
        /\ runs[k].pc = "mark1"

\* the run got a response with a body of one of these shapes
GotContent(r, shapes) == r.content.shape \in shapes

\* the parse step returned to the run, whose result is r.result until saved
ParseReturned(r) == r.pc = "saveResult"

C8_MalformedNeverFatal ==
    \A k \in RunIds :
        runs[k].content.shape # "none" => runs[k].cause \notin {"parse", "validation"}

\* C9: a run whose extraction failed marks its record failed with a non-empty
\* errorMessage, and no failed record has an overallScore.
C9_FailedHasNoScore ==
    /\ \A k \in RunIds :
          (JustMarkedBy(k) /\ runs[k].cause = "extraction"
                /\ records[runs[k].rec].exists) =>
              /\ records[runs[k].rec].processingStatus = "failed"
              /\ records[runs[k].rec].errorMessage # NoError
    /\ \A i \in Existing :
          records[i].processingStatus = "failed" => records[i].overallScore = << >>

Accepted == last.op = "upload" /\ last.code = 202

\* C11: when the 202 response of an upload is sent, the record it created is
\* not yet completed or failed, and the run scheduled for it has completed no
\* step (it stands before its first one).
C11_ResponseBeforeRun ==
    Accepted =>
        /\ records[last.id].exists => records[last.id].processingStatus \notin Terminal
        /\ runs[last.run].rec = last.id
        /\ runs[last.run].pc = "load"

\* the faults for which an upload request is to be rejected
Faulty(req) ==
    \/ req.experienceLevel \notin {"entry", "mid", "senior", "executive"}
    \/ req.majorLength < 2
    \/ req.majorLength > 100
    \/ req.jobId \notin {"", "hex24"}
    \/ ~req.file.present
    \/ req.file.mimetype # "application/pdf"
    \/ req.file.extension # ".pdf"
    \/ req.file.oversize

\* C12: an upload request with a missing or unknown experience level, a
\* missing major or one whose length is outside 2..100, a malformed jobId, no
\* file, a file that is no PDF or a file over the size limit is answered with a
\* 4xx response, creates no record, stores no record's file and schedules no
\* run.
C12_RejectedUploadCreatesNothing ==
    [][\A u \in Users, r \in UploadRequests :
        (Faulty(r) /\ PostUpload(u, r)) =>
            /\ last'.op = "upload"
            /\ last'.code >= 400
            /\ last'.code < 500
            /\ records' = records
            /\ files' = files
            /\ runs' = runs
            /\ nextId' = nextId]_vars

\* C12 witness: with a record already there, a request with a malformed jobId
\* has just been answered 400
C12_Witness ==
    /\ last.op = "upload"
    /\ last.code = 400
    /\ last.message = "Invalid job ID format"
    /\ Existing # {}

\* how many of the times in seq lie in the window of length windowMs that
\* starts at from
InWindow(seq, from) ==
    Cardinality({j \in 1..Len(seq) : seq[j] >= from /\ seq[j] < from + windowMs})

\* how many requests of the user the limiter let pass less than windowMs ago
OwnRecent(user) ==
    Cardinality({j \in 1..Len(accepted[user]) : now - accepted[user][j] < windowMs})

\* C13: no window of 60 seconds holds more than 5 requests of one user that
\* passed the rate limiter; an upload request is answered 429 exactly when 5
\* requests of the same user passed less than 60 seconds ago, whatever other
\* users uploaded and whatever runs are in flight; and a request answered 429
\* stores no file, creates no record, schedules no run and is not counted.
C13_RateLimit ==
    [][/\ \A u \in Users : \A j \in 1..Len(accepted'[u]) :
              InWindow(accepted'[u], accepted'[u][j]) <= 5
       /\ \A u \in Users, r \in LimiterRequests :
              PostUpload(u, r) =>
                  /\ (last'.code = 429) <=> (OwnRecent(u) >= 5)
                  /\ last'.code = 429 =>
                        /\ records' = records
                        /\ files' = files
                        /\ runs' = runs
                        /\ nextId' = nextId
                        /\ unreferenced' = unreferenced
                        /\ accepted' = accepted]_vars

\* C13 witness: user A's sixth request within a minute has just been answered
\* 429, while user B has uploaded too, time has passed and a run is in flight
C13_Witness ==
    /\ last.op = "upload"
    /\ last.code = 429
    /\ last.user = "userA"
    /\ accepted["userB"] # << >>
    /\ now > 0
    /\ \E k \in RunIds : runs[k].pc \notin {"idle", "done"}

\* the request passes the upload middleware and the controller's checks, and
\* the new record fails to save
FailsToPersist(req) == ~Faulty(req) /\ ~savesNewRecord(req)

Deleted(i) == i < nextId /\ ~records[i].exists

C16_TerminalImmutable ==
    [][\A i \in Ids :
        (/\ records[i].exists
         /\ records[i].processingStatus \in Terminal
         /\ records'[i].exists) => records'[i] = records[i]]_vars

\* C17: every record that has left pending holds a non-empty extractedText
\* (the placeholder written at creation, or the extracted text); a run goes
\* past extraction only with non-empty text; and a run whose extraction
\* failed is on its failure path, where it never writes completed.
C17_TextNeverEmpty ==
    /\ \A i \in Existing :
          records[i].processingStatus # "pending" => records[i].extractedText.len > 0
    /\ \A k \in RunIds :
          /\ runs[k].pc \in {"saveText", "call", "sleep", "saveResult"} =>
                runs[k].textLen > 0
          /\ runs[k].cause \in {"extraction", "notext"} =>
                runs[k].pc \in {"mark1", "mark2", "done"}

\* C17 witness: a run on a scanned PDF, from which no text comes out, has
\* just marked its record failed
C17_Witness ==
    \E k \in RunIds :
        /\ JustMarkedBy(k)
        /\ runs[k].cause = "extraction"
        /\ records[runs[k].rec].exists
        /\ files[runs[k].rec].pdf = ScannedPdf
        /\ records[runs[k].rec].processingStatus = "failed"

\* C18: a history listing holds exactly the records of the user who asked
\* whose processingStatus equals the status filter of the request, and all of
\* the user's records when the request carries no filter.
C18_HistoryFilter ==
    last.op = "history" =>
        last.data = {i \in Existing :
                        /\ records[i].userId = last.user
                        /\ (last.status = "" \/ records[i].processingStatus = last.status)}

\* C19: a results fetch with an id that is no ObjectId is answered 400
\* "Invalid ID format".
C19_InvalidIdIs400 ==
    (last.op = "results" /\ last.id = InvalidId) =>
        /\ last.code = 400
        /\ last.message = "Invalid ID format"

\* the runs of performAnalysis in flight for record i
InFlight(i) == {k \in RunIds : runs[k].rec = i /\ runs[k].pc \notin {"idle", "wait", "done"}}

\* C20: at most one run is in flight for a record at any time.
C20_OneRunPerRecord == \A i \in Ids : Cardinality(InFlight(i)) <= 1

\* the record is there and neither completed nor failed
Unfinished(i) == records[i].exists /\ records[i].processingStatus \notin Terminal

\* C21: every run that has been scheduled (or whose upload handler is about to
\* schedule it) comes to its end, and every record that is not yet completed
\* or failed becomes completed or failed, unless it is deleted: no record
\* stays in processing forever.
C21_RunsTerminate ==
    /\ \A k \in RunIds : (runs[k].pc \notin {"idle", "done"}) ~> (runs[k].pc = "done")
    /\ \A i \in Ids : Unfinished(i) ~> ~Unfinished(i)

\* C21 witness: a run whose attempts all failed with a retryable error has
\* come to its end and its record is failed
C21_Witness ==
    \E k \in RunIds :
        /\ runs[k].pc = "done"
        /\ runs[k].cause = "api-exhausted"
        /\ records[runs[k].rec].exists
        /\ records[runs[k].rec].processingStatus = "failed"

\* the step sets the status of record i to processing
SetsProcessing(i) ==
    /\ records'[i].exists
    /\ records'[i].processingStatus = "processing"
    /\ ~(records[i].exists /\ records[i].processingStatus = "processing")

\* C22: the status of a record is set to processing only by the first step of
\* a run for that record, on a record that is pending; so it happens once in
\* the record's life, and no request handler sets it.
C22_ProcessingSetByRunOnce ==
    [][\A i \in Ids :
        SetsProcessing(i) =>
            /\ last'.op = "run"
            /\ last'.id = i
            /\ runs[last'.run].pc = "load"
            /\ records[i].exists
            /\ records[i].processingStatus = "pending"]_vars

\* the order of the positions of a run: each step of a run takes it from a
\* position to one of those listed for it
StageSuccessors(pc) ==
    IF pc = "load" THEN {"extract", "mark1"}
    ELSE IF pc = "extract" THEN {"saveText", "mark1"}
    ELSE IF pc = "saveText" THEN {"call", "mark1"}
    ELSE IF pc = "call" THEN {"sleep", "saveResult", "mark1"}
    ELSE IF pc = "sleep" THEN {"call"}
    ELSE IF pc = "saveResult" THEN {"done", "mark1"}
    ELSE IF pc = "mark1" THEN {"mark2"}
    ELSE IF pc = "mark2" THEN {"done"}
    ELSE {}

\* the result fields of a document
ResultFields(d) == <<d.overallScore, d.hasSummary, d.sections, d.recommendations>>

\* the run is at the AI call, between two attempts, or holds its result
AtOrPastCall(r) == r.pc \in {"call", "sleep", "saveResult"}

\* C23: a run goes through its stages in order (load, extraction, saving the
\* text, AI call with its retries, saving the result); the AI call is made
\* only by a run that has not failed and whose extraction gave non-empty text,
\* saved on its document; the step in which a stage fails writes nothing; and
\* a run that has failed makes no API attempt and changes no result field.
C23_StagesInOrder ==
    [][\A k \in RunIds :
        /\ (runs[k].pc \notin {"idle", "wait"} /\ runs'[k].pc # runs[k].pc) =>
              runs'[k].pc \in StageSuccessors(runs[k].pc)
        /\ AtOrPastCall(runs'[k]) =>
              /\ runs'[k].textLen > 0
              /\ runs'[k].doc.extractedText = Text(runs'[k].textLen)
        /\ (runs'[k].calls > runs[k].calls) =>
              /\ runs[k].pc = "call"
              /\ runs[k].cause = ""
              /\ runs[k].textLen > 0
        /\ (runs[k].cause = "" /\ runs'[k].cause # "") =>
              /\ runs'[k].pc = "mark1"
              /\ records' = records
        /\ (runs[k].cause # "" /\ last'.run = k /\ last'.op \in {"run", "markFailed"}) =>
              /\ runs'[k].pc \in {"mark2", "done"}
              /\ runs'[k].calls <= runs[k].calls
              /\ \A i \in Ids : ResultFields(records'[i]) = ResultFields(records[i])]_vars

\* C23 witness: a run whose extraction failed has come to its end without an
\* API attempt, and its record is failed with no result
C23_Witness ==
    \E k \in RunIds :
        /\ runs[k].pc = "done"
        /\ runs[k].cause = "extraction"
        /\ records[runs[k].rec].exists
        /\ records[runs[k].rec].processingStatus = "failed"
        /\ records[runs[k].rec].overallScore = << >>

\* the messages of the errors the extractor's stages raise
ExtractorMessages ==
    {extractionInnerError(t, p, e) : t \in BOOLEAN, p \in Pdfs, e \in ExtractionEvents}
        \ {NoError}

\* C24: the errorMessage a failed run has just stored is the message of the
\* error its stage raised: for a failed extraction one of the extractor's
\* messages, with nothing put before it, and for a failed AI call not the
\* service's fixed "CV analysis failed".
C24_ErrorMessageVerbatim ==
    \A k \in RunIds :
        (JustMarkedBy(k) /\ records[runs[k].rec].exists) =>
            /\ runs[k].cause = "extraction" =>
                  records[runs[k].rec].errorMessage \in ExtractorMessages
            /\ runs[k].cause \in {"api-nonretryable", "api-exhausted"} =>
                  records[runs[k].rec].errorMessage # <<"CV analysis failed">>

\* what a reader of the record can see of its progress: the extracted text
\* and the AI result fields
HasText(d) == ~d.extractedText.placeholder /\ d.extractedText.len > 0
HasScore(d) == d.overallScore # << >>
HasSections(d) == d.sections # << >>
HasRecommendations(d) == d.recommendations # << >>

\* C25: as long as a record is there, its extracted text and its AI result
\* fields (overallScore, sections, recommendations), once present, stay
\* present; and a pending record has no AI result field.
C25_MonotoneProgress ==
    [][\A i \in Ids :
        /\ (records[i].exists /\ records'[i].exists) =>
              /\ HasText(records[i]) => HasText(records'[i])
              /\ HasScore(records[i]) => HasScore(records'[i])
              /\ HasSections(records[i]) => HasSections(records'[i])
              /\ HasRecommendations(records[i]) => HasRecommendations(records'[i])
        /\ (records'[i].exists /\ records'[i].processingStatus = "pending") =>
              /\ ~HasScore(records'[i])
              /\ ~HasSections(records'[i])
              /\ ~HasRecommendations(records'[i])]_vars

\* C26: the usage metadata a run stores on its record is that of its own AI
\* response: the tokensUsed it persists is the token count of the response
\* this run received, whatever other runs did before it or alongside it.
C26_UsageIsOwn ==
    [][\A k \in RunIds :
        (/\ runs[k].pc = "saveResult"
         /\ runs'[k].pc = "done"
         /\ records'[runs[k].rec].exists) =>
            /\ Len(records'[runs[k].rec].openaiProcessing) = 1
            /\ records'[runs[k].rec].openaiProcessing[1].tokensUsed = runs[k].usage]_vars

\* a reanalysis of a record has just scheduled run j while run k, scheduled
\* earlier for the same record, was still in flight
ReanalyzedDuring(j, k) ==
    /\ last.op = "reanalyze"
    /\ last.code = 200
    /\ last.run = j
    /\ k # j
    /\ runs[k].rec = last.id
    /\ runs[k].pc \notin {"idle", "wait", "done"}

\* the status a finished run has produced
Produced(r) == IF r.cause = "" THEN "completed" ELSE "failed"

\* runs j and k have both finished and the record they worked on is there
BothFinished(j, k) ==
    /\ runs[j].pc = "done"
    /\ runs[k].pc = "done"
    /\ records[runs[j].rec].exists

\* C27: when a reanalysis schedules run j while an earlier run k for the same
\* record is in flight, then from there on, whenever both runs have finished,
\* the status of the record is the one run j produced: no late write of run k
\* has replaced it.
C27_LatestRunWins ==
    \A j \in RunIds, k \in RunIds :
        [](ReanalyzedDuring(j, k) =>
            [](BothFinished(j, k) =>
                records[runs[j].rec].processingStatus = Produced(runs[j])))

\* run k is in flight for a record that has been deleted
RunsOnDeleted(k) ==
    /\ runs[k].pc \notin {"idle", "wait", "done"}
    /\ Deleted(runs[k].rec)

\* C28: a run in flight for a deleted record never brings the record back:
\* whichever step it takes (loading, saving the text, saving the result,
\* marking failed), the record stays absent and no record or file changes;
\* and the run comes to its end.
C28_DeleteNotUndone ==
    /\ [][\A k \in RunIds :
            (RunsOnDeleted(k) /\ last'.run = k /\ last'.op \in {"run", "markFailed"}) =>
                /\ ~records'[runs[k].rec].exists
                /\ records' = records
                /\ files' = files]_vars
    /\ \A k \in RunIds : RunsOnDeleted(k) ~> (runs[k].pc = "done")

\* C28 witness: a run found its record gone when it saved its result, went
\* through its failure path and has come to its end, the record still absent
C28_Witness ==
    \E k \in RunIds :
        /\ runs[k].pc = "done"
        /\ runs[k].cause = "persistence"
        /\ Deleted(runs[k].rec)

\* the file of record i is one the upload route accepts: stored, and within
\* the upload size limit
AcceptedFile(i) == files[i].there /\ files[i].pdf.size <= fileSizeLimit

\* C29: every stored file within the upload limit of 10 MB passes the
\* extractor's file validation, and no run fails at extraction on a file that
\* would have been extracted had it been smaller.
C29_AcceptedSizePasses ==
    /\ \A i \in Ids : AcceptedFile(i) => validateFile(files[i].there, files[i].pdf) = NoError
    /\ \A k \in RunIds :
          (runs[k].cause = "extraction" /\ AcceptedFile(runs[k].rec)) =>
              extractionInnerError(TRUE, [files[runs[k].rec].pdf EXCEPT !.size = 1], "none")
                  # NoError

\* C30: every file in the upload directory is the file of a record: no
\* upload request, accepted or rejected at any step of the route, leaves a
\* file behind that no record refers to.
C30_NoUnreferencedFile ==
    /\ unreferenced = 0
    /\ \A i \in Ids : files[i].there => records[i].exists
====
